---- MODULE Spec2Model ----
(***************************************************************************)
(* A model of nlsh/trainers.py: the bucket index (_Indexer, build_index),  *)
(* the recall measure (calculate_recall) and the training loop (fit of     *)
(* TripletTrainer and SiameseTrainer).                                     *)
(*                                                                         *)
(* Row indices are 0-based as in the source; TLA+ sequences are 1-based,   *)
(* so row r of a vector set v is v[r + 1].  A vector is a point on the     *)
(* integer line and a hash key is an opaque string.                        *)
(***************************************************************************)
EXTENDS Integers, Sequences, FiniteSets, TLC

VARIABLES
    phase,              \* which operation the object under study is at
    hashing,            \* the hashing model's parameters: vector -> hash key
    candidate_vectors,  \* _Indexer._candidate_vectors (and its gpu copy)
    index2row,          \* _Indexer.index2row: dict hash key -> row indices
    call,               \* the method call made last, with its arguments
    ret,                \* what that call returned (or that it raised)
    fit                 \* the local variables of a running fit()

vars == <<phase, hashing, candidate_vectors, index2row, call, ret, fit>>

----------------------------------------------------------------------------
(* Bounds of the model.                                                    *)

MaxCoord == 2       \* vectors are the points 0..MaxCoord
MaxN == 3           \* at most MaxN candidate rows
MaxQ == 1           \* at most MaxQ query rows per query call
MaxK == 2           \* k ranges over 0..MaxK
MaxChunk == 2       \* batch_size of a hash call ranges over 1..MaxChunk

Vectors == 0 .. MaxCoord
Keys == {"A", "B"}

\* hash(self, query_vectors, batch_size=1024): the default chunk size.
DefaultBatchSize == 1024

----------------------------------------------------------------------------
(* Python and torch helpers.                                               *)

Range(s) == {s[i] : i \in 1 .. Len(s)}

SeqsUpTo(S, n) == UNION {[1 .. m -> S] : m \in 0 .. n}

Min(a, b) == IF a <= b THEN a ELSE b

\* v[start:end] on rows, 0-based, end exclusive, clipped to the length.
Slice(v, start, end) ==
    LET hi == Min(end, Len(v))
    IN  IF start >= hi THEN << >> ELSE [i \in 1 .. (hi - start) |-> v[start + i]]

EmptyDict == [key \in {} |-> << >>]

DictPut(d, key, value) ==
    [x \in (DOMAIN d) \cup {key} |-> IF x = key THEN value ELSE d[x]]

\* The dataset's distance function, applied to one pair of vectors.
distance_func(a, b) == IF a >= b THEN a - b ELSE b - a

\* HashingModel.hash(batch): one key per row, in row order.
ModelHash(h, batch) == [i \in 1 .. Len(batch) |-> h[batch[i]]]

----------------------------------------------------------------------------
(* build_index and _Indexer.                                               *)

\* build_index(indexes): the loop of lines 27-31 as a fold over the rows.
\* The conversion of each list to a LongTensor (lines 36-37) keeps its rows.
RECURSIVE BuildLoop(_, _, _)
BuildLoop(indexes, idx, d) ==
    IF idx >= Len(indexes) THEN d
    ELSE LET index == indexes[idx + 1]
         IN  BuildLoop(indexes, idx + 1,
                       IF index \notin DOMAIN d
                       THEN DictPut(d, index, <<idx>>)
                       ELSE DictPut(d, index, Append(d[index], idx)))

\* A build whose loop stores [idx] for every row, losing the rows stored
\* before under the same key.
RECURSIVE BuildLoopOverwrite(_, _, _)
BuildLoopOverwrite(indexes, idx, d) ==
    IF idx >= Len(indexes) THEN d
    ELSE BuildLoopOverwrite(indexes, idx + 1,
                            DictPut(d, indexes[idx + 1], <<idx>>))

build_index_overwrite(indexes) == BuildLoopOverwrite(indexes, 0, EmptyDict)

build_index(indexes) == BuildLoop(indexes, 0, EmptyDict)

\* _Indexer.hash: the loop over the full chunks (lines 61-66), then the
\* final slice (lines 67-69), which is empty when batch_size divides n.
RECURSIVE HashLoop(_, _, _, _, _)
HashLoop(h, query_vectors, batch_size, idx, hash_keys) ==
    IF idx >= Len(query_vectors) \div batch_size THEN hash_keys
    ELSE LET start == idx * batch_size
             end == (idx + 1) * batch_size
             batch == Slice(query_vectors, start, end)
         IN  HashLoop(h, query_vectors, batch_size, idx + 1,
                      hash_keys \o ModelHash(h, batch))

\* A hash that stops after the full chunks.
IndexerHashNoTail(h, query_vectors, batch_size) ==
    HashLoop(h, query_vectors, batch_size, 0, << >>)

IndexerHash(h, query_vectors, batch_size) ==
    LET n == Len(query_vectors)
        n_batches == n \div batch_size
        hash_keys == HashLoop(h, query_vectors, batch_size, 0, << >>)
        last_batch == Slice(query_vectors, n_batches * batch_size, n)
    IN  hash_keys \o ModelHash(h, last_batch)

\* _Indexer._build_index, called by __init__.
IndexerBuildIndex(h, cands) ==
    build_index(IndexerHash(h, cands, DefaultBatchSize))

----------------------------------------------------------------------------
(* _Indexer.query.                                                         *)

\* A fault raised by a step of query: the step, the query row it strikes
\* and the exception class.  RuntimeError is what torch raises.
NoFault == [stage |-> "none", row |-> 0, type |-> "none"]

Faults(query_vectors) ==
    {NoFault}
    \cup [stage : {"hash"}, row : {0}, type : {"RuntimeError", "IndexError"}]
    \cup [stage : {"gather", "distance", "topk", "map"},
          row : 0 .. (Len(query_vectors) - 1),
          type : {"RuntimeError", "IndexError"}]

\* distance.topk(k, largest)[1] for k <= len(distance): the positions
\* (0-based) of the k smallest (largest) entries, best first; the order
\* among equal entries is torch's choice, so this is a set of results.
RECURSIVE TopKSel(_, _, _, _)
TopKSel(distance, remaining, k, largest) ==
    IF k = 0 THEN {<< >>}
    ELSE LET best == {p \in remaining : \A q \in remaining :
                         IF largest
                         THEN distance[p + 1] >= distance[q + 1]
                         ELSE distance[p + 1] <= distance[q + 1]}
         IN  UNION {{<<p>> \o rest :
                        rest \in TopKSel(distance, remaining \ {p}, k - 1, largest)} :
                    p \in best}

topk(distance, k, largest) ==
    TopKSel(distance, 0 .. (Len(distance) - 1), k, largest)

Raised(type) == [outcome |-> "raised", error |-> type, value |-> << >>]
Returned(value) == [outcome |-> "returned", error |-> "none", value |-> value]

\* A row of the result: the list built at line 97, or the LongTensor
\* candidate_rows itself when the except branch ran.
PyList(rows) == [kind |-> "list", rows |-> rows]
LongTensor(rows) == [kind |-> "tensor", rows |-> rows]

\* line 97: topk_idxs = [int(candidate_rows[i]) for i in topk_idxs]
MapBack(candidate_rows, topk_idxs) ==
    [j \in 1 .. Len(topk_idxs) |-> candidate_rows[topk_idxs[j] + 1]]

\* An except branch that gives the row no result.
ExceptBranchEmpty(candidate_rows) == PyList(<< >>)

\* line 99: topk_idxs = candidate_rows
ExceptBranch(candidate_rows) == LongTensor(candidate_rows)

\* A selection of the k largest distances.
SelectLargest(distance, k) == topk(distance, k, TRUE)

\* line 96: distance.topk(k, largest=False)
Select(distance, k) == topk(distance, k, FALSE)

\* One pass of the loop body of query (lines 77-101) for the query row
\* with hash key qi and cpu vector target_vector; f is the fault striking
\* this row, NoFault if none.  The set of outcomes of the pass.
QueryRow(cands, d, qi, target_vector, k, f) ==
    LET candidate_rows == IF qi \in DOMAIN d THEN d[qi] ELSE << >>
        n_candidates == Len(candidate_rows)
        vector_buffer == [i \in 1 .. n_candidates |-> cands[candidate_rows[i] + 1]]
        distance == [i \in 1 .. n_candidates |->
                        distance_func(target_vector, vector_buffer[i])]
    IN  IF f.stage \in {"gather", "distance"}
        THEN {Raised(f.type)}
        ELSE IF k > n_candidates
        THEN \* topk raises RuntimeError: k is out of range
             {Returned(ExceptBranch(candidate_rows))}
        ELSE IF f.stage = "topk" \/ (f.stage = "map" /\ k > 0)
        THEN IF f.type = "RuntimeError"
             THEN {Returned(ExceptBranch(candidate_rows))}
             ELSE {Raised(f.type)}
        ELSE {Returned(PyList(MapBack(candidate_rows, topk_idxs))) :
                 topk_idxs \in Select(distance, k)}

\* The runs of the loop over the first i query rows: one outcome per row.
RECURSIVE LoopRuns(_, _)
LoopRuns(rows, i) ==
    IF i = 0 THEN {<< >>}
    ELSE {Append(r, x) : r \in LoopRuns(rows, i - 1), x \in rows[i]}

\* query(query_vectors, query_vectors_gpu, k): the set of outcomes of the
\* call.  The two copies of the query vectors hold the same values.  The
\* first row whose pass raises ends the call; no result is returned then.
IndexerQuery(h, cands, d, query_vectors, k, fault) ==
    IF fault.stage = "hash" THEN {Raised(fault.type)}
    ELSE
    LET query_indexes == IndexerHash(h, query_vectors, DefaultBatchSize)
        n == Len(query_vectors)
        FaultAt(idx) == IF fault.row = idx THEN fault ELSE NoFault
        rows == [i \in 1 .. n |->
                    QueryRow(cands, d, query_indexes[i], query_vectors[i], k,
                             FaultAt(i - 1))]
    IN  {IF \E i \in 1 .. n : r[i].outcome = "raised"
         THEN LET first == CHOOSE i \in 1 .. n :
                              /\ r[i].outcome = "raised"
                              /\ \A j \in 1 .. (i - 1) : r[j].outcome = "returned"
              IN  Raised(r[first].error)
         ELSE Returned([i \in 1 .. n |-> r[i].value]) : r \in LoopRuns(rows, n)}

----------------------------------------------------------------------------
(* The _Indexer under study: construction, then one hash or query call.    *)
(* Neither call changes the indexer, so one call per run loses nothing.    *)

NoCall == [op |-> "none"]
NoFit == [pc |-> "none"]

InitIndexer ==
    /\ phase = "new"
    /\ hashing \in [Vectors -> Keys]
    /\ candidate_vectors \in SeqsUpTo(Vectors, MaxN)
    /\ index2row = EmptyDict
    /\ call = NoCall
    /\ ret = << >>
    /\ fit = NoFit

\* _Indexer.__init__
IndexerInit ==
    /\ phase = "new"
    /\ phase' = "ready"
    /\ index2row' = IndexerBuildIndex(hashing, candidate_vectors)
    /\ UNCHANGED <<hashing, candidate_vectors, call, ret, fit>>

\* indexer.hash(query_vectors, batch_size)
HashCall ==
    /\ phase = "ready"
    /\ \E batch_size \in 1 .. MaxChunk :
          /\ call' = [op |-> "hash", query_vectors |-> candidate_vectors,
                      batch_size |-> batch_size]
          /\ ret' = IndexerHash(hashing, candidate_vectors, batch_size)
    /\ phase' = "called"
    /\ UNCHANGED <<hashing, candidate_vectors, index2row, fit>>

\* indexer.query(query_vectors, query_vectors_gpu, k); when faulty, a step
\* of the call may raise.
QueryWith(faulty) ==
    /\ phase = "ready"
    /\ \E query_vectors \in SeqsUpTo(Vectors, MaxQ), k \in 0 .. MaxK :
          \E fault \in (IF faulty THEN Faults(query_vectors) ELSE {NoFault}) :
             \E out \in IndexerQuery(hashing, candidate_vectors, index2row,
                                     query_vectors, k, fault) :
                /\ call' = [op |-> "query", query_vectors |-> query_vectors,
                            k |-> k, fault |-> fault]
                /\ ret' = out
    /\ phase' = "called"
    /\ UNCHANGED <<hashing, candidate_vectors, index2row, fit>>

QueryCall == QueryWith(FALSE)

QueryCallFaulty == QueryWith(TRUE)

NextIndexer == IndexerInit \/ HashCall \/ QueryCall

SpecIndexer == InitIndexer /\ [][NextIndexer]_vars

NextFaults == IndexerInit \/ QueryCallFaulty

SpecFaults == InitIndexer /\ [][NextFaults]_vars

----------------------------------------------------------------------------
(* calculate_recall.                                                       *)

MaxRow == 2         \* row indices in y_true and y_pred are 0..MaxRow
MaxLen == 2         \* y_true and y_pred have at most MaxLen entries

\* A row of the ground-truth array: numpy integers.
NdArray(rows) == [kind |-> "ndarray", rows |-> rows]

\* set(y).  Python ints and numpy integers hash by value and are equal when
\* their values are.  Iterating a LongTensor yields one 0-dim tensor object
\* per position, and a tensor hashes by identity: it is found in a set
\* only as itself.  <<0, v>> stands for the integer v and <<i, v>> for the
\* tensor object at position i, holding v.
PySet(y) ==
    IF y.kind = "tensor"
    THEN {<<i, y.rows[i]>> : i \in 1 .. Len(y.rows)}
    ELSE {<<0, y.rows[i]>> : i \in 1 .. Len(y.rows)}

\* calculate_recall(y_true, y_pred): the quotient true_positives / n_true
\* as the pair <<true_positives, n_true>>; the division raises when
\* n_true is 0.
calculate_recall(y_true, y_pred) ==
    LET n_true == Len(y_true.rows)
        true_positives == Cardinality(PySet(y_true) \cap PySet(y_pred))
    IN  IF n_true = 0 THEN Raised("ZeroDivisionError")
        ELSE Returned(<<true_positives, n_true>>)

InitRecall ==
    /\ phase = "new"
    /\ \E t \in SeqsUpTo(0 .. MaxRow, MaxLen), p \in SeqsUpTo(0 .. MaxRow, MaxLen) :
          \E y_pred \in {PyList(p), LongTensor(p)} :
             call = [op |-> "calculate_recall", y_true |-> NdArray(t),
                     y_pred |-> y_pred]
    /\ ret = << >>
    /\ hashing = << >>
    /\ candidate_vectors = << >>
    /\ index2row = EmptyDict
    /\ fit = NoFit

RecallCall ==
    /\ phase = "new"
    /\ call.op = "calculate_recall"
    /\ phase' = "called"
    /\ ret' = calculate_recall(call.y_true, call.y_pred)
    /\ UNCHANGED <<hashing, candidate_vectors, index2row, call, fit>>

NextRecall == RecallCall

SpecRecall == InitRecall /\ [][NextRecall]_vars

----------------------------------------------------------------------------
(* TripletTrainer.fit and SiameseTrainer.fit.                              *)

MaxEpochs == 2      \* stands for the 300 passes of `for _ in range(300)`
MaxBatches == 2     \* the sampler yields 1..MaxBatches batches per epoch
MaxInterval == 2    \* test_every_updates ranges over 1..MaxInterval

\* The dataset of the run: self._data.training, .testing and .ground_truth
\* (the true nearest candidate rows of each testing row, nearest first).
DataTraining == <<0, 3>>
DataTesting == <<1, 2>>
DataGroundTruth == << <<0, 1>>, <<1, 0>> >>

FitVectors == Range(DataTraining) \cup Range(DataTesting)

\* The parameters of the hashing model before the first optimizer step.
UntrainedHashing == [v \in FitVectors |-> "A"]

\* One entry of the record of calls fit makes on its collaborators during
\* the current pass of the inner loop: the call, its argument, the mode the
\* hashing model is in when the call is made, and the step it is tagged with.
Event(name, arg, training, step) ==
    [call |-> name, arg |-> arg, training |-> training, step |-> step]

RECURSIVE Sum(_)
Sum(s) == IF s = << >> THEN 0 ELSE Head(s) + Sum(Tail(s))

\* np.mean([calculate_recall(y_true, y_pred) for y_pred, y_true in
\* zip(result, list(ground_truth))]) with ground_truth cut to K columns:
\* every quotient has the denominator K, so the mean is this sum of the
\* true positives divided by K * len(result).  Recalls of one run are
\* compared by this numerator.
MeanRecall(result, K) ==
    Sum([i \in 1 .. Len(result) |->
            calculate_recall(NdArray(Slice(DataGroundTruth[i], 0, K)),
                             result[i]).value[1]])

\* The test of line 173 made on the step count before its increment.
EvalDueBeforeIncrement(global_step, test_every_updates) ==
    (global_step - 1) % test_every_updates = 0

\* line 173: if global_step % test_every_updates == 0
EvalDue(global_step, test_every_updates) ==
    global_step % test_every_updates = 0

\* The test of line 196 with >= for >.
ImprovesOrTies(current_recall, best_recall) == current_recall >= best_recall

\* line 196: if current_recall > best_recall
Improves(current_recall, best_recall) == current_recall > best_recall

InitFit ==
    /\ phase = "fit"
    /\ hashing = UntrainedHashing
    /\ candidate_vectors = << >>
    /\ index2row = EmptyDict
    /\ call = NoCall
    /\ ret = << >>
    /\ \E trainer \in {"TripletTrainer", "SiameseTrainer"},
          K \in 1 .. Len(DataGroundTruth[1]),
          test_every_updates \in 1 .. MaxInterval,
          n_batches \in 1 .. MaxBatches,
          training \in BOOLEAN :
          fit = [pc |-> "next_batch",
                 trainer |-> trainer,
                 K |-> K,
                 test_every_updates |-> test_every_updates,
                 n_batches |-> n_batches,
                 epoch |-> 0,
                 batch |-> 0,
                 global_step |-> 0,
                 best_recall |-> 0,
                 current_recall |-> 0,
                 training |-> training,
                 saved |-> << >>,
                 earlier |-> {},
                 eval_steps |-> {},
                 log |-> << >>]

\* The inner for loop draws the next sampled batch: global_step += 1.
NextBatch ==
    /\ fit.pc = "next_batch"
    /\ fit.epoch < MaxEpochs
    /\ fit.batch < fit.n_batches
    /\ fit' = [fit EXCEPT !.pc = "train",
                          !.batch = @ + 1,
                          !.global_step = @ + 1,
                          !.log = << >>]
    /\ UNCHANGED <<phase, hashing, candidate_vectors, index2row, call, ret>>

\* The batch generator is exhausted: the outer loop starts the next epoch,
\* or fit returns after the last one.
EpochEnd ==
    /\ fit.pc = "next_batch"
    /\ fit.epoch < MaxEpochs
    /\ fit.batch = fit.n_batches
    /\ fit' = [fit EXCEPT !.pc = IF fit.epoch + 1 = MaxEpochs
                                 THEN "done" ELSE "next_batch",
                          !.epoch = @ + 1,
                          !.batch = 0]
    /\ UNCHANGED <<phase, hashing, candidate_vectors, index2row, call, ret>>

\* The calls of one training step, lines 153-172 (259-280), given the mode
\* the model is in once train_mode has been called.
TrainEvents(trainer, mode, step) ==
    <<Event("train_mode", TRUE, mode, step),
      Event("zero_grad", 0, mode, step),
      Event("predict", 0, mode, step),
      Event("predict", 1, mode, step)>>
    \o (IF trainer = "TripletTrainer"
        THEN <<Event("predict", 2, mode, step)>> ELSE << >>)
    \o <<Event("log", "training/loss", mode, step),
         Event("backward", 0, mode, step),
         Event("optimizer.step", 0, mode, step)>>

\* A training step that leaves the mode as the last evaluation set it.
TrainKeepMode ==
    /\ fit.pc = "train"
    /\ hashing' \in [FitVectors -> Keys]
    /\ fit' = [fit EXCEPT
                  !.pc = IF EvalDue(fit.global_step, fit.test_every_updates)
                         THEN "evaluate" ELSE "next_batch",
                  !.log = @ \o TrainEvents(fit.trainer, fit.training,
                                           fit.global_step)]
    /\ UNCHANGED <<phase, candidate_vectors, index2row, call, ret>>

\* One training step: train_mode(True), the predictions, the loss and the
\* optimizer step, which leaves the model with any parameters.
Train ==
    /\ fit.pc = "train"
    /\ hashing' \in [FitVectors -> Keys]
    /\ fit' = [fit EXCEPT
                  !.pc = IF EvalDue(fit.global_step, fit.test_every_updates)
                         THEN "evaluate" ELSE "next_batch",
                  !.training = TRUE,
                  !.log = @ \o TrainEvents(fit.trainer, TRUE, fit.global_step)]
    /\ UNCHANGED <<phase, candidate_vectors, index2row, call, ret>>

\* An evaluation that does not report the bucket sizes.
EvalBuildSilent ==
    /\ fit.pc = "evaluate"
    /\ candidate_vectors' = DataTraining
    /\ index2row' = IndexerBuildIndex(hashing, DataTraining)
    /\ fit' = [fit EXCEPT
                  !.pc = "query",
                  !.training = FALSE,
                  !.eval_steps = @ \cup {fit.global_step},
                  !.log = @ \o <<Event("train_mode", FALSE, FALSE, fit.global_step),
                                 Event("_Indexer", 0, FALSE, fit.global_step)>>]
    /\ UNCHANGED <<phase, hashing, call, ret>>

\* Lines 174-185 (282-293): train_mode(False), a new _Indexer over the
\* candidates, and the reports of the number of buckets and of the
\* standard deviation of their sizes.
EvalBuild ==
    /\ fit.pc = "evaluate"
    /\ candidate_vectors' = DataTraining
    /\ index2row' = IndexerBuildIndex(hashing, DataTraining)
    /\ fit' = [fit EXCEPT
                  !.pc = "query",
                  !.training = FALSE,
                  !.eval_steps = @ \cup {fit.global_step},
                  !.log = @ \o <<Event("train_mode", FALSE, FALSE, fit.global_step),
                                 Event("_Indexer", 0, FALSE, fit.global_step),
                                 Event("log", "test/n_indexes", FALSE, fit.global_step),
                                 Event("log", "test/std_index_rows", FALSE,
                                       fit.global_step)>>]
    /\ UNCHANGED <<phase, hashing, call, ret>>

\* Lines 187-194 (295-302): the query over the validation set and the mean
\* recall of its result.
EvalQuery ==
    /\ fit.pc = "query"
    /\ \E out \in IndexerQuery(hashing, candidate_vectors, index2row,
                               DataTesting, fit.K, NoFault) :
          fit' = [fit EXCEPT
                     !.pc = "checkpoint",
                     !.current_recall = MeanRecall(out.value, fit.K),
                     !.log = @ \o <<Event("query", fit.K, fit.training,
                                          fit.global_step)>>]
    /\ UNCHANGED <<phase, hashing, candidate_vectors, index2row, call, ret>>

\* Lines 196-199 (304-307): save the model when the recall improves.
Checkpoint ==
    /\ fit.pc = "checkpoint"
    /\ fit' = IF Improves(fit.current_recall, fit.best_recall)
              THEN [fit EXCEPT
                       !.pc = "report",
                       !.best_recall = fit.current_recall,
                       !.saved = Append(@, <<fit.global_step, fit.current_recall>>),
                       !.log = @ \o <<Event("save", fit.current_recall,
                                            fit.training, fit.global_step)>>]
              ELSE [fit EXCEPT !.pc = "report"]
    /\ UNCHANGED <<phase, hashing, candidate_vectors, index2row, call, ret>>

\* Lines 201-203 (309-311): the reports of the recall and of the queries
\* per second, which end the evaluation.
Report ==
    /\ fit.pc = "report"
    /\ fit' = [fit EXCEPT
                  !.pc = "next_batch",
                  !.earlier = @ \cup {fit.current_recall},
                  !.log = @ \o <<Event("log", "test/recall", fit.training,
                                       fit.global_step),
                                 Event("log", "test/qps", fit.training,
                                       fit.global_step)>>]
    /\ UNCHANGED <<phase, hashing, candidate_vectors, index2row, call, ret>>

Next ==
    \/ NextBatch
    \/ EpochEnd
    \/ Train
    \/ EvalBuild
    \/ EvalQuery
    \/ Checkpoint
    \/ Report

Spec == InitFit /\ [][Next]_vars

----------------------------------------------------------------------------
(* Properties of the index.                                                *)

Count(s, x) == Cardinality({i \in 1 .. Len(s) : s[i] = x})

IsInjective(s) == \A i, j \in 1 .. Len(s) : s[i] = s[j] => i = j

\* The bucket of the table for a hash key: its rows, none for an unseen key.
Bucket(key) == IF key \in DOMAIN index2row THEN index2row[key] ELSE << >>

\* C1: once the indexer is constructed, every candidate row 0..N-1 occurs
\* exactly once in the bucket keyed by its own hash key and in no other
\* bucket, and the buckets hold nothing but candidate rows.
C1_BucketsPartitionRows ==
    phase \in {"ready", "called"} =>
        LET N == Len(candidate_vectors)
        IN  /\ \A r \in 0 .. (N - 1) :
                  LET own == hashing[candidate_vectors[r + 1]]
                  IN  /\ own \in DOMAIN index2row
                      /\ \A key \in DOMAIN index2row :
                            Count(index2row[key], r) = IF key = own THEN 1 ELSE 0
            /\ \A key \in DOMAIN index2row :
                  /\ Range(index2row[key]) \subseteq 0 .. (N - 1)
                  /\ index2row[key] # << >>

C1_Witness ==
    /\ phase = "ready"
    /\ Len(candidate_vectors) = MaxN
    /\ Cardinality(DOMAIN index2row) = 2
    /\ \E key \in DOMAIN index2row : Len(index2row[key]) >= 2

\* C2: a query call returns, for every query row, exactly min(k, bucket
\* size) row indices, all distinct and all in the bucket keyed by the
\* row's hash key (no bucket and an empty result for an unseen key); a
\* bucket of fewer than k rows is returned whole.
C2_TopKBound ==
    (phase = "called" /\ call.op = "query") =>
        /\ ret.outcome = "returned"
        /\ Len(ret.value) = Len(call.query_vectors)
        /\ \A i \in 1 .. Len(call.query_vectors) :
              LET bucket == Bucket(hashing[call.query_vectors[i]])
                  rows == ret.value[i].rows
              IN  /\ Len(rows) = Min(call.k, Len(bucket))
                  /\ IsInjective(rows)
                  /\ Range(rows) \subseteq Range(bucket)
                  /\ Len(bucket) < call.k => Range(rows) = Range(bucket)

C2_Witness ==
    /\ phase = "called"
    /\ call.op = "query"
    /\ call.k = 2
    /\ Len(call.query_vectors) = 1
    /\ Len(Bucket(hashing[call.query_vectors[1]])) = 1
    /\ Len(ret.value[1].rows) = 1
    /\ DOMAIN index2row = Keys

\* C3: for a query row whose bucket has at least k rows, the result is k
\* rows of the bucket, as candidate row indices, in ascending order of
\* distance to the query vector, and no row of the bucket left out is
\* nearer than a row returned.
C3_NearestFirst ==
    (phase = "called" /\ call.op = "query") =>
        \A i \in 1 .. Len(call.query_vectors) :
           LET q == call.query_vectors[i]
               bucket == Bucket(hashing[q])
               rows == ret.value[i].rows
               Dist(r) == distance_func(q, candidate_vectors[r + 1])
           IN  Len(bucket) >= call.k =>
                  /\ Len(rows) = call.k
                  /\ IsInjective(rows)
                  /\ Range(rows) \subseteq Range(bucket)
                  /\ \A a, b \in 1 .. Len(rows) : a < b => Dist(rows[a]) <= Dist(rows[b])
                  /\ \A m \in Range(bucket) \ Range(rows) :
                        \A a \in 1 .. Len(rows) : Dist(rows[a]) <= Dist(m)

C3_Witness ==
    /\ phase = "called"
    /\ call.op = "query"
    /\ call.k = 1
    /\ Len(call.query_vectors) = 1
    /\ LET bucket == Bucket(hashing[call.query_vectors[1]])
       IN  /\ Len(bucket) = 2
           /\ bucket[1] # 0
           /\ ret.value[1].rows = <<bucket[2]>>
           /\ distance_func(call.query_vectors[1], candidate_vectors[bucket[2] + 1])
                 < distance_func(call.query_vectors[1], candidate_vectors[bucket[1] + 1])

\* C4: a hash call on N rows with any chunk size returns N keys, the i-th
\* being the key the hashing model gives row i when it hashes the whole
\* set in one call.
C4_ChunkedHashAgrees ==
    (phase = "called" /\ call.op = "hash") =>
        LET whole == ModelHash(hashing, call.query_vectors)
        IN  /\ Len(ret) = Len(call.query_vectors)
            /\ \A i \in 1 .. Len(call.query_vectors) : ret[i] = whole[i]

C4_Witness ==
    /\ phase = "called"
    /\ call.op = "hash"
    /\ Len(call.query_vectors) = 3
    /\ call.batch_size = 2
    /\ ret[3] # ret[2]
    /\ ret[2] # ret[1]

\* The fault of the call was raised: a fault of the hashing, the gather or
\* the distance always is, one of the selection or of the mapping is
\* raised on a bucket of at least k rows (on a smaller bucket the selection
\* fails for the shortfall, which is no injected fault).
FaultStruck ==
    /\ call.fault # NoFault
    /\ \/ call.fault.stage \in {"hash", "gather", "distance"}
       \/ LET q == call.query_vectors[call.fault.row + 1]
          IN  /\ call.k <= Len(Bucket(hashing[q]))
              /\ call.fault.stage = "map" => call.k > 0

\* C8: a fault raised while query processes a row, other than the
\* selection failing on a bucket of fewer than k rows, propagates: the
\* call raises and returns no result list.
C8_OtherFaultsPropagate ==
    (phase = "called" /\ call.op = "query" /\ FaultStruck) =>
        ret.outcome = "raised"

\* C5: for a non-empty y_true the recall is in [0, 1], is 1 when every true
\* index is among the predicted indices and 0 when none is.
C5_RecallBounds ==
    (phase = "called" /\ call.op = "calculate_recall" /\ call.y_true.rows # << >>) =>
        LET true_set == Range(call.y_true.rows)
            pred_set == Range(call.y_pred.rows)
            true_positives == ret.value[1]
            n_true == ret.value[2]
        IN  /\ ret.outcome = "returned"
            /\ 0 <= true_positives /\ true_positives <= n_true
            /\ true_set \subseteq pred_set => true_positives = n_true
            /\ true_set \cap pred_set = {} => true_positives = 0

----------------------------------------------------------------------------
(* Properties of fit.                                                      *)

\* The positions of the record of calls holding a call of the given name.
Calls(name) == {i \in 1 .. Len(fit.log) : fit.log[i].call = name}

\* The positions reporting the named metric tagged with the current step.
Logged(name) ==
    {i \in Calls("log") : /\ fit.log[i].arg = name
                          /\ fit.log[i].step = fit.global_step}

\* C6 as stated: when the checkpoint decision of an evaluation has been
\* taken, save was called iff the recall just computed exceeds every
\* recall of an earlier evaluation of the run.
C6_SaveIffExceedsEarlier ==
    fit.pc = "report" =>
        (Calls("save") # {} <=> \A e \in fit.earlier : fit.current_recall > e)

\* C6 amended: save was called iff the recall just computed is above 0 and
\* exceeds every recall of an earlier evaluation of the run; the
\* checkpoint just written is named by the current step and recall.
C6_SaveIffExceedsEarlierAndZero ==
    fit.pc = "report" =>
        /\ Calls("save") # {} <=>
              /\ fit.current_recall > 0
              /\ \A e \in fit.earlier : fit.current_recall > e
        /\ Calls("save") # {} =>
              /\ fit.saved # << >>
              /\ fit.saved[Len(fit.saved)] = <<fit.global_step, fit.current_recall>>
        /\ Calls("save") = {} =>
              \A i \in 1 .. Len(fit.saved) : fit.saved[i][1] # fit.global_step

\* Three evaluations at steps 1, 2 and 3: a checkpoint, a lower recall
\* and no checkpoint, a higher recall and the second checkpoint.
C6_Witness ==
    /\ fit.pc = "report"
    /\ fit.global_step = 3
    /\ Cardinality(fit.earlier) = 2
    /\ Len(fit.saved) = 2
    /\ fit.saved[1][1] = 1
    /\ fit.saved[2][1] = 3
    /\ Calls("save") # {}

\* C7: global_step is the number of batches sampled since fit began, over
\* all epochs; an evaluation runs only at a step that is a multiple of
\* test_every_updates, and the steps at which evaluations have run are
\* exactly the multiples reached so far.
C7_EvaluationCadence ==
    fit.pc # "none" =>
        LET Multiples(n) == {x \in 1 .. n : x % fit.test_every_updates = 0}
        IN  /\ fit.global_step = fit.epoch * fit.n_batches + fit.batch
            /\ fit.pc \in {"evaluate", "query", "checkpoint", "report"} =>
                  fit.global_step % fit.test_every_updates = 0
            /\ fit.pc \in {"next_batch", "done", "query", "checkpoint", "report"} =>
                  fit.eval_steps = Multiples(fit.global_step)
            /\ fit.pc \in {"train", "evaluate"} =>
                  fit.eval_steps = Multiples(fit.global_step - 1)

\* An evaluation in the second epoch, at a step that ends no interval
\* counted from the start of that epoch.
C7_Witness ==
    /\ fit.pc = "report"
    /\ fit.n_batches = 1
    /\ fit.test_every_updates = 2
    /\ fit.epoch = 1
    /\ fit.eval_steps = {2}

\* C9 as stated: when the checkpoint decision is about to be taken, the
\* recall, the bucket-size dispersion and the queries per second have all
\* been reported, tagged with the current step.
C9_MetricsBeforeCheckpoint ==
    fit.pc = "checkpoint" =>
        /\ Logged("test/std_index_rows") # {}
        /\ Logged("test/recall") # {}
        /\ Logged("test/qps") # {}

\* C9 amended: when the checkpoint decision is about to be taken the query
\* has run and the dispersion has been reported, tagged with the current
\* step, and neither the recall nor the queries per second has; both are
\* reported, tagged with the same step, once the decision is taken, after
\* the save if there is one.
C9_DispersionBeforeRecallAfter ==
    /\ fit.pc = "checkpoint" =>
          /\ Logged("test/std_index_rows") # {}
          /\ Calls("query") # {}
          /\ Logged("test/recall") = {}
          /\ Logged("test/qps") = {}
          /\ Calls("save") = {}
    /\ fit.pc = "report" =>
          /\ Logged("test/recall") = {}
          /\ Logged("test/qps") = {}
    /\ (fit.pc = "next_batch" /\ fit.global_step \in fit.eval_steps) =>
          /\ Logged("test/recall") # {}
          /\ Logged("test/qps") # {}
          /\ \A i \in Calls("save") :
                /\ \E j \in Logged("test/std_index_rows") : j < i
                /\ \A j \in Logged("test/recall") \cup Logged("test/qps") : i < j

C9_Witness ==
    /\ fit.pc = "next_batch"
    /\ fit.global_step \in fit.eval_steps
    /\ Calls("save") # {}
    /\ Logged("test/recall") # {}

\* C10: the model is in training mode at every predict call and optimizer
\* step and in evaluation mode when an index is built and when it is
\* queried; the query of an evaluation runs on the one index built in
\* that evaluation, which is the index of the model's current parameters,
\* with no optimizer step after the build.
C10_ModesAndFreshIndex ==
    fit.pc # "none" =>
        /\ \A i \in Calls("predict") \cup Calls("optimizer.step") :
              fit.log[i].training
        /\ \A i \in Calls("_Indexer") \cup Calls("query") :
              ~fit.log[i].training
        /\ fit.pc = "query" => ~fit.training
        /\ fit.pc = "checkpoint" =>
              /\ Cardinality(Calls("_Indexer")) = 1
              /\ Cardinality(Calls("query")) = 1
              /\ \A b \in Calls("_Indexer") :
                    /\ \A q \in Calls("query") : b < q
                    /\ \A o \in Calls("optimizer.step") : o < b
              /\ candidate_vectors = DataTraining
              /\ index2row = IndexerBuildIndex(hashing, DataTraining)

\* The second evaluation of a run: a training step has followed an
\* evaluation.
C10_Witness ==
    /\ fit.pc = "checkpoint"
    /\ Cardinality(fit.eval_steps) = 2
    /\ Calls("predict") # {}
    /\ Calls("query") # {}

====
